---- MODULE Spec2Model ----
(***************************************************************************)
(* A model of LRest (src/LRest.py): the name resolver searchDictionary /   *)
(* searchInstances, the six REST operations that call it, and the          *)
(* acquisition of the page_objects dictionary (getSource,                  *)
(* getSourceFromHTML, parseHTML, cacheClient).                             *)
(*                                                                         *)
(* Two slips of the source are read through, because with them no line of  *)
(* the class runs at all: the missing comma in "instance=None timeout = 4" *)
(* (lines 47, 63, 78, 93, 108) and parseHTML's use of the name page_source *)
(* for its parameter raw_html (lines 253, 261).  Paths are opened as on    *)
(* Windows, where the backslash of 'cached_clients\\' separates            *)
(* directories (lines 197, 250).                                           *)
(***************************************************************************)
EXTENDS Integers, Sequences, FiniteSets, TLC

VARIABLES
    page_objects,   \* self.page_objects of the client the calls are made on
    pc,             \* where the current invocation stands
    call,           \* the current invocation: operation and arguments
    result,         \* what searchDictionary returned or raised
    requests,       \* the HTTP requests issued during the current invocation
    outcome,        \* how the current invocation ended
    cache,          \* the directory cached_clients: client name -> file content
    page,           \* the rendered client page the browser would show
    clients,        \* the LRest objects constructed so far, oldest first
    scrapes,        \* how many times the browser was launched
    results         \* searchDictionary's outcome on each constructed client

vars == <<page_objects, pc, call, result, requests, outcome,
          cache, page, clients, scrapes, results>>

(***************************************************************************)
(* Bounds.                                                                 *)
(***************************************************************************)
MaxObjects == 3          \* objects of a SiteMap the resolver is run on
MaxDispatchObjects == 1  \* objects of a SiteMap the six operations are run on
MaxPageObjects == 1      \* objects of the page scraped at construction
MaxClients == 2          \* LRest objects constructed for the same url

\* Names the Leshan page gives its objects; none parses as an integer.  The
\* object at place j of a dictionary is named ObjectNamePool[j]: every
\* content is tried at every place and every name is asked for, so each
\* order of enumeration is covered up to the renaming of the objects.
ObjectNamePool == <<"Device", "Sensor", "Led", "Lcd", "Button">>

\* The resource dictionaries an instance is given, by their resource names.
Battery == {"Battery"}
Temp == {"Temp"}
BatteryTwice == {"Battery", "BATTERY"}

\* The instances an object is given: one resource-name set per instance.
ObjectShapes ==
    { <<>>, <<Battery>>, <<Temp>>, <<BatteryTwice>>,
      <<Battery, Battery>>, <<Battery, Temp>>, <<Temp, Battery>>, <<Temp, Temp>> }

(***************************************************************************)
(* Python values that reach the resolver as object_ and instance: None, an *)
(* int, a str holding the decimal digits of a number, a str that is a      *)
(* name.  An int and the str of its digits are different dictionary keys.  *)
(***************************************************************************)
None == [k |-> "none", s |-> "", n |-> 0]
IntVal(n) == [k |-> "int", s |-> "", n |-> n]
NumStr(n) == [k |-> "numstr", s |-> "", n |-> n]
Name(s) == [k |-> "name", s |-> s, n |-> 0]

\* str(x)
PyStr(x) == IF x.k = "int" THEN NumStr(x.n) ELSE x

\* whether int(x) returns rather than raising ValueError
ParsesAsInt(x) == x.k \in {"int", "numstr"}

\* s.lower()
Lower(s) ==
    CASE s = "Battery" -> "battery"
      [] s = "BATTERY" -> "battery"
      [] s = "Temp" -> "temp"
      [] s = "TEMP" -> "temp"
      [] OTHER -> s

(***************************************************************************)
(* The rendered page and what parseHTML makes of it.                       *)
(***************************************************************************)
ResId(r) == CASE r = "Battery" -> 9 [] r = "BATTERY" -> 10 [] OTHER -> 1

\* The text of a resource's tooltip after split('>')[1], "/3/0/9" as <<3,0,9>>.
Path(j, i, r) == <<j + 2, i, ResId(r)>>

NoPath == <<>>

\* One "object in objects" element: its name and its instance elements, each
\* the set of its "resource in instance.resources" elements.
ObjectElement(j, shape) ==
    [name |-> ObjectNamePool[j],
     instances |-> [i \in 1..Len(shape) |->
                      {[name |-> r, id |-> Path(j, i - 1, r)] : r \in shape[i]}]]

PagesOfLen(k) ==
    { [j \in 1..k |-> ObjectElement(j, f[j])] : f \in [1..k -> ObjectShapes] }

\* Pages of at most n objects, each object rendered once.
Pages(n) == UNION { PagesOfLen(k) : k \in 0..n }

\* resource_dict of one instance element (lines 271-278)
ResourceDict(elems) ==
    [r \in {e.name : e \in elems} |-> (CHOOSE e \in elems : e.name = r).id]

(* A dictionary object -> instance -> resource -> path is held as the      *)
(* sequence of its objects in the dictionary's order, each with the        *)
(* sequence of its instances; the instance at place i has the key i-1,     *)
(* an int or the str of its digits according to keys.                      *)
parseHTML(raw_html) ==
    [keys |-> "int",
     objs |-> [j \in 1..Len(raw_html) |->
                 [name |-> raw_html[j].name,
                  insts |-> [i \in 1..Len(raw_html[j].instances) |->
                               ResourceDict(raw_html[j].instances[i])]]]]

\* json.dumps(object_dict) written to a file: a JSON text, in which every key
\* of an object is a string.
Dumps(object_dict) == [exists |-> TRUE, json |-> object_dict.objs]

\* json.load(file): the dictionary of a JSON text, its keys all str.
Loads(blob) == [keys |-> "numstr", objs |-> blob.json]

\* A file name the directory does not list.
NoBlob == [exists |-> FALSE, json |-> <<>>]

\* The dictionaries a client can hold: fresh from a scrape, which raises on
\* an empty one (lines 215-216), or loaded from a file.
ScrapedMaps(n) == { parseHTML(p) : p \in {q \in Pages(n) : Len(q) > 0} }
LoadedMaps(n) == { Loads(Dumps(parseHTML(p))) : p \in Pages(n) }

(***************************************************************************)
(* searchInstances and searchDictionary.                                   *)
(***************************************************************************)
\* The place of key object_ in self.page_objects, 0 when .get gives None.
ObjectIndex(po, object_) ==
    IF object_.k = "name" /\ \E j \in 1..Len(po.objs) : po.objs[j].name = object_.s
    THEN CHOOSE j \in 1..Len(po.objs) : po.objs[j].name = object_.s
    ELSE 0

\* Whether self.page_objects[object at j].get(instance) is not None.
HasInstance(po, j, instance) ==
    /\ instance.k = po.keys
    /\ instance.n + 1 \in 1..Len(po.objs[j].insts)

\* The key of the instance at place i of an object.
InstKey(po, i) == [k |-> po.keys, s |-> "", n |-> i - 1]

MatchesExact(res_key, resource) == res_key = resource

\* res_key.lower()==resource.lower()
Matches(res_key, resource) == Lower(res_key) = Lower(resource)

(* The loop over the items of one instance: append on a match, raise as    *)
(* soon as the list holds more than one.  Whether it raises, and the list  *)
(* it returns when it does not, do not depend on the order of the items.   *)
RECURSIVE ScanItems(_, _, _, _)
ScanItems(dict, keys, resource, matches) ==
    IF keys = {} THEN [err |-> "none", matches |-> matches]
    ELSE LET res_key == CHOOSE x \in keys : TRUE
             m == IF Matches(res_key, resource)
                  THEN Append(matches, dict[res_key])
                  ELSE matches
         IN IF Len(m) > 1
            THEN [err |-> "Ambiguous", matches |-> m]
            ELSE ScanItems(dict, keys \ {res_key}, resource, m)

searchInstances(po, resource, object_, instance, matches) ==
    LET j == ObjectIndex(po, object_)
    IN IF j = 0
       THEN [err |-> "AttributeError", matches |-> matches]
       ELSE IF ~HasInstance(po, j, instance)
       THEN [err |-> "none", matches |-> <<>>]
       ELSE ScanItems(po.objs[j].insts[instance.n + 1],
                      DOMAIN po.objs[j].insts[instance.n + 1],
                      resource, matches)

\* for obj_key in self.page_objects.keys(): matches = self.searchInstances(...)
RECURSIVE SearchObjects(_, _, _, _, _)
SearchObjects(po, j, resource, instance, matches) ==
    IF j > Len(po.objs) THEN [err |-> "none", matches |-> matches]
    ELSE LET r == searchInstances(po, resource, Name(po.objs[j].name), instance, matches)
         IN IF r.err # "none" THEN r
            ELSE SearchObjects(po, j + 1, resource, instance, r.matches)

\* for inst_key in self.page_objects[obj].keys(): matches = self.searchInstances(...)
RECURSIVE SearchInstancesOf(_, _, _, _, _)
SearchInstancesOf(po, j, i, resource, matches) ==
    IF i > Len(po.objs[j].insts) THEN [err |-> "none", matches |-> matches]
    ELSE LET r == searchInstances(po, resource, Name(po.objs[j].name),
                                  InstKey(po, i), matches)
         IN IF r.err # "none" THEN r
            ELSE SearchInstancesOf(po, j, i + 1, resource, r.matches)

\* the two nested loops over every object and every instance of it
RECURSIVE SearchEverything(_, _, _, _)
SearchEverything(po, j, resource, matches) ==
    IF j > Len(po.objs) THEN [err |-> "none", matches |-> matches]
    ELSE LET r == SearchInstancesOf(po, j, 1, resource, matches)
         IN IF r.err # "none" THEN r
            ELSE SearchEverything(po, j + 1, resource, r.matches)

\* the except: branch, entered with whatever instance and matches then are
GeneralCase(po, resource, object_, instance, matches) ==
    IF instance = None
    THEN IF ObjectIndex(po, object_) = 0
         THEN [err |-> "KeyError", matches |-> matches]
         ELSE SearchInstancesOf(po, ObjectIndex(po, object_), 1, resource, matches)
    ELSE searchInstances(po, resource, object_, instance, matches)

(* The try: branch.  The bare except: catches the ValueError of a second   *)
(* match as it catches the ValueError of int(); by then instance has been  *)
(* set to str(object_) and matches holds what was appended.                *)
IntegerObjectCase(po, resource, object_) ==
    LET t == SearchObjects(po, 1, resource, PyStr(object_), <<>>)
    IN IF t.err = "none" THEN t
       ELSE GeneralCase(po, resource, object_, PyStr(object_), t.matches)

\* the end of searchDictionary: raise on an empty list, else matches[0]
Finish(r) ==
    IF r.err # "none" THEN [kind |-> r.err, path |-> NoPath]
    ELSE IF Len(r.matches) = 0 THEN [kind |-> "NotFound", path |-> NoPath]
    ELSE [kind |-> "path", path |-> r.matches[1]]

searchDictionary(po, resource, object_, instance) ==
    Finish(IF object_ = None
           THEN IF instance = None
                THEN SearchEverything(po, 1, resource, <<>>)
                ELSE SearchObjects(po, 1, resource, PyStr(instance), <<>>)
           ELSE IF ParsesAsInt(object_)
                THEN IntegerObjectCase(po, resource, object_)
                ELSE GeneralCase(po, resource, object_, instance, <<>>))

(***************************************************************************)
(* The arguments the calls are made with.                                  *)
(***************************************************************************)
Resources == {"battery", "BATTERY"}

ObjectArgs(n) ==
    {None, Name("Ghost"), IntVal(0), NumStr(0)}
        \cup {Name(ObjectNamePool[j]) : j \in 1..n}

InstanceArgs == {None, IntVal(0), NumStr(0), IntVal(1), NumStr(1)}

NoCall == [op |-> "none", resource |-> "", object_ |-> None, instance |-> None]
NoResult == [kind |-> "none", path |-> NoPath]

\* The values of the variables a specification does not use.
NoClientState ==
    /\ cache = <<>>
    /\ page = <<>>
    /\ clients = <<>>
    /\ scrapes = 0
    /\ results = <<>>

IdleState ==
    /\ pc = "idle"
    /\ call = NoCall
    /\ result = NoResult
    /\ requests = <<>>
    /\ outcome = "none"

(***************************************************************************)
(* Spec: searchDictionary called on a client that holds a dictionary.      *)
(***************************************************************************)
Init ==
    /\ page_objects \in ScrapedMaps(MaxObjects) \cup LoadedMaps(MaxObjects)
    /\ IdleState
    /\ NoClientState

CallSearchDictionary(resource, object_, instance) ==
    /\ pc = "idle"
    /\ call' = [op |-> "searchDictionary", resource |-> resource,
                object_ |-> object_, instance |-> instance]
    /\ result' = searchDictionary(page_objects, resource, object_, instance)
    /\ pc' = "searched"
    /\ UNCHANGED <<page_objects, requests, outcome, cache, page, clients,
                   scrapes, results>>

Return ==
    /\ pc \in {"searched", "returned", "raised"}
    /\ pc' = "idle"
    /\ call' = NoCall
    /\ result' = NoResult
    /\ requests' = <<>>
    /\ outcome' = "none"
    /\ UNCHANGED <<page_objects, cache, page, clients, scrapes, results>>

Next ==
    \/ \E resource \in Resources, object_ \in ObjectArgs(MaxObjects),
          instance \in InstanceArgs :
          CallSearchDictionary(resource, object_, instance)
    \/ Return

Spec == Init /\ [][Next]_vars

(***************************************************************************)
(* SpecDispatch: read, write, observe, discover, execute and delete.       *)
(***************************************************************************)
\* timeout=4 of every operation's signature
DefaultTimeout == 4

\* self.url of the client
DeviceUrl == <<"http://leshan:8080", "#", "clients", "dev1">>

\* self.url.replace('#','api')
ApiUrl(url) == [i \in DOMAIN url |-> IF url[i] = "#" THEN "api" ELSE url[i]]

Operations == {"read", "write", "observe", "discover", "execute", "delete"}

\* the requests function each operation calls
Method(op) ==
    CASE op = "read" -> "GET"
      [] op = "write" -> "PUT"
      [] op = "observe" -> "POST"
      [] op = "discover" -> "GET"
      [] op = "execute" -> "POST"
      [] op = "delete" -> "DELETE"

\* what each operation appends to the url after res_id
Suffix(op) ==
    CASE op = "observe" -> "/observe"
      [] op = "discover" -> "/discover"
      [] OTHER -> ""

\* the json= argument of write; no other operation sends a body
Payload(op, res_id, text) ==
    IF op = "write" THEN [present |-> TRUE, id |-> res_id, value |-> text]
    ELSE [present |-> FALSE, id |-> NoPath, value |-> ""]

\* the call of requests.get / put / post / delete
RequestOf(op, res_id, text) ==
    [method |-> Method(op), url |-> ApiUrl(DeviceUrl), path |-> res_id,
     suffix |-> Suffix(op), payload |-> Payload(op, res_id, text),
     timeout |-> DefaultTimeout]

AlwaysSend(r) == "sending"

\* an exception of searchDictionary leaves the operation; a path goes on
AfterResolve(r) == IF r.kind = "path" THEN "sending" ELSE "raised"

\* What the server may answer: in time or not, with a success status or
\* not, with a body that holds content.value or not.
Replies == {"ok", "ok_no_value", "http_error", "timeout"}

\* how the operation ends on a reply: raise_for_status, and read's parsing
AfterReply(op, reply) ==
    CASE reply = "timeout" -> [pc |-> "raised", outcome |-> "Timeout"]
      [] reply = "http_error" -> [pc |-> "raised", outcome |-> "HTTPError"]
      [] reply = "ok_no_value" /\ op = "read" ->
            [pc |-> "raised", outcome |-> "MalformedResponse"]
      [] OTHER -> [pc |-> "returned",
                   outcome |-> IF op = "read" THEN "value" ELSE "None"]

DispatchInit ==
    /\ page_objects \in ScrapedMaps(MaxDispatchObjects)
                            \cup LoadedMaps(MaxDispatchObjects)
    /\ IdleState
    /\ NoClientState

Invoke(op, resource, object_, instance) ==
    /\ pc = "idle"
    /\ call' = [op |-> op, resource |-> resource,
                object_ |-> object_, instance |-> instance]
    /\ pc' = "resolving"
    /\ UNCHANGED <<page_objects, result, requests, outcome, cache, page,
                   clients, scrapes, results>>

Resolve ==
    /\ pc = "resolving"
    /\ result' = searchDictionary(page_objects, call.resource, call.object_,
                                  call.instance)
    /\ pc' = AfterResolve(result')
    /\ outcome' = IF pc' = "raised" THEN result'.kind ELSE outcome
    /\ UNCHANGED <<page_objects, call, requests, cache, page, clients,
                   scrapes, results>>

Send ==
    /\ pc = "sending"
    /\ requests' = Append(requests, RequestOf(call.op, result.path, "on"))
    /\ pc' = "awaiting"
    /\ UNCHANGED <<page_objects, call, result, outcome, cache, page, clients,
                   scrapes, results>>

Respond(reply) ==
    /\ pc = "awaiting"
    /\ pc' = AfterReply(call.op, reply).pc
    /\ outcome' = AfterReply(call.op, reply).outcome
    /\ UNCHANGED <<page_objects, call, result, requests, cache, page, clients,
                   scrapes, results>>

DispatchNext ==
    \/ \E op \in Operations, resource \in Resources,
          object_ \in ObjectArgs(MaxDispatchObjects), instance \in InstanceArgs :
          Invoke(op, resource, object_, instance)
    \/ Resolve
    \/ Send
    \/ \E reply \in Replies : Respond(reply)
    \/ Return

SpecDispatch == DispatchInit /\ [][DispatchNext]_vars

(***************************************************************************)
(* SpecAcquire: LRest(url) constructed, once and again, for the same url.  *)
(***************************************************************************)
ClientIds == {"dev1", "dev2"}

\* what a file of cached_clients may hold before the first construction
CachedPages == { <<>>, <<ObjectElement(1, <<Battery>>)>> }

CacheFiles == {NoBlob} \cup { Dumps(parseHTML(p)) : p \in CachedPages }

NoMap == [keys |-> "numstr", objs |-> <<>>]

\* url.split(r'/')[-1]
ClientOf(url) == url[Len(url)]

\* os.listdir('cached_clients'), each file name without its '.json'
Listing(c) == {id \in DOMAIN c : c[id].exists}

\* cacheClient: the file client + '.json' is written
cacheClient(c, object_dict, client) == [c EXCEPT ![client] = Dumps(object_dict)]

getSourceFromHTML(url, client, c, pg) ==
    LET object_dict == parseHTML(pg)
    IN IF Len(object_dict.objs) = 0
       THEN [error |-> "IOError", page_objects |-> NoMap, source |-> "scrape",
             cache |-> c, scraped |-> 1]
       ELSE [error |-> "none", page_objects |-> object_dict, source |-> "scrape",
             cache |-> cacheClient(c, object_dict, client), scraped |-> 1]

(* The loop over the files of the directory returns the file of the client *)
(* when it is there.  client is assigned in the loop's body alone: with no *)
(* file at all it is unbound when the call after the loop reads it.        *)
getSource(url, c, pg) ==
    IF ClientOf(url) \in Listing(c)
    THEN [error |-> "none", page_objects |-> Loads(c[ClientOf(url)]),
          source |-> "cache", cache |-> c, scraped |-> 0]
    ELSE IF Listing(c) = {}
    THEN [error |-> "UnboundLocalError", page_objects |-> NoMap,
          source |-> "none", cache |-> c, scraped |-> 0]
    ELSE getSourceFromHTML(url, ClientOf(url), c, pg)

AcquireInit ==
    /\ cache \in [ClientIds -> CacheFiles]
    /\ page \in Pages(MaxPageObjects)
    /\ clients = <<>>
    /\ scrapes = 0
    /\ results = <<>>
    /\ page_objects = NoMap
    /\ IdleState

\* LRest.__init__(url)
Construct ==
    /\ pc = "idle"
    /\ Len(clients) < MaxClients
    /\ LET g == getSource(DeviceUrl, cache, page)
       IN /\ clients' = Append(clients, [error |-> g.error,
                                         page_objects |-> g.page_objects,
                                         source |-> g.source])
          /\ cache' = g.cache
          /\ scrapes' = scrapes + g.scraped
    /\ UNCHANGED <<page_objects, pc, call, result, requests, outcome, page,
                   results>>

\* the same searchDictionary call made on every client constructed
ResolveOnClients(resource, object_, instance) ==
    /\ pc = "idle"
    /\ clients # <<>>
    /\ call' = [op |-> "searchDictionary", resource |-> resource,
                object_ |-> object_, instance |-> instance]
    /\ results' = [i \in DOMAIN clients |->
                     IF clients[i].error = "none"
                     THEN searchDictionary(clients[i].page_objects, resource,
                                           object_, instance)
                     ELSE NoResult]
    /\ pc' = "searched"
    /\ UNCHANGED <<page_objects, result, requests, outcome, cache, page,
                   clients, scrapes>>

Forget ==
    /\ pc = "searched"
    /\ pc' = "idle"
    /\ call' = NoCall
    /\ results' = <<>>
    /\ UNCHANGED <<page_objects, result, requests, outcome, cache, page,
                   clients, scrapes>>

AcquireNext ==
    \/ Construct
    \/ \E resource \in Resources, object_ \in ObjectArgs(MaxPageObjects),
          instance \in InstanceArgs :
          ResolveOnClients(resource, object_, instance)
    \/ Forget

SpecAcquire == AcquireInit /\ [][AcquireNext]_vars

(***************************************************************************)
(* What the specification says a query searches, and what it finds there.  *)
(* An instance identifier names the instance of that number whether it is  *)
(* given as an int or as the str of its digits.                            *)
(***************************************************************************)
Pairs(po) ==
    UNION { {<<j, i>> : i \in 1..Len(po.objs[j].insts)} : j \in 1..Len(po.objs) }

\* The (object, instance) pairs in the scope of a query.
ScopeOf(po, object_, instance) ==
    { p \in Pairs(po) :
        IF object_ = None
        THEN instance = None \/ p[2] = instance.n + 1
        ELSE IF ParsesAsInt(object_)
        THEN p[2] = object_.n + 1
        ELSE /\ po.objs[p[1]].name = object_.s
             /\ instance = None \/ p[2] = instance.n + 1 }

\* The entries <<object, instance, stored name>> of the pairs of ps whose
\* case-folded name is that of resource.
Hits(po, ps, resource) ==
    UNION { {<<p[1], p[2], r>> : r \in {x \in DOMAIN po.objs[p[1]].insts[p[2]] :
                                          Lower(x) = Lower(resource)}} : p \in ps }

PathOf(po, h) == po.objs[h[1]].insts[h[2]][h[3]]

Searched == pc = "searched" /\ call.op = "searchDictionary"

\* A dictionary as json.load gives it: instance keys are str.
StringKeyed == page_objects.keys = "numstr"

(***************************************************************************)
(* The claims.                                                             *)
(***************************************************************************)

(* C1: on a dictionary with string instance keys, when the resource name   *)
(* matches entries under two or more (object, instance) pairs of the       *)
(* query's scope, searchDictionary raises the ambiguity error, whatever    *)
(* the qualifiers and whatever else the dictionary holds.                  *)
C1_AmbiguousWhenTwoPairsInScope ==
    (/\ Searched
     /\ StringKeyed
     /\ Cardinality({<<h[1], h[2]>> :
            h \in Hits(page_objects,
                       ScopeOf(page_objects, call.object_, call.instance),
                       call.resource)}) >= 2)
    => result.kind = "Ambiguous"

C3_IntegerObjectIsInstance ==
    (/\ Searched
     /\ ParsesAsInt(call.object_)
     /\ call.instance = None)
    => result = searchDictionary(page_objects, call.resource, None, call.object_)

(* C4: on a dictionary with string instance keys, the name of one of its   *)
(* objects with an instance searches the one pair (object_,                *)
(* str(instance)): the path when that pair holds exactly one match, the    *)
(* not-found error when it holds none or does not exist; and an int        *)
(* instance gives the outcome the str of its digits gives.                 *)
C4_ExactPairAndNormalizedInstance ==
    (/\ Searched
     /\ StringKeyed
     /\ call.object_.k = "name"
     /\ ObjectIndex(page_objects, call.object_) # 0
     /\ call.instance # None)
    => LET hits == Hits(page_objects,
                        ScopeOf(page_objects, call.object_, call.instance),
                        call.resource)
       IN /\ Cardinality(hits) = 1 =>
                \E h \in hits :
                    result = [kind |-> "path", path |-> PathOf(page_objects, h)]
          /\ hits = {} => result.kind = "NotFound"
          /\ result = searchDictionary(page_objects, call.resource, call.object_,
                                       PyStr(call.instance))
          /\ result = searchDictionary(page_objects, call.resource, call.object_,
                                       IntVal(call.instance.n))

(* C5: every call of searchDictionary ends with a path, the not-found      *)
(* error or the ambiguity error, and with no other error.                  *)
C5_OnlyThreeOutcomes ==
    Searched => result.kind \in {"path", "NotFound", "Ambiguous"}

C7_OneRequestAfterResolution ==
    /\ Len(requests) <= 1
    /\ pc \in {"idle", "resolving", "sending"} => requests = <<>>
    /\ pc = "sending" => result.kind = "path"
    /\ result.kind # "path" => requests = <<>>
    /\ (pc \in {"awaiting", "returned"}
            \/ (pc = "raised" /\ result.kind = "path")) =>
          /\ Len(requests) = 1
          /\ requests[1] = RequestOf(call.op, result.path, "on")
          /\ requests[1].path = result.path

\* C7's case: an operation resolved, sent its one request and returned.
C7_Witness ==
    /\ pc = "returned"
    /\ result.kind = "path"
    /\ Len(requests) = 1
    /\ requests[1].path = result.path

(* C8: a client that scraped its dictionary and a later client that loaded *)
(* the file the first one wrote give the same outcome for every            *)
(* searchDictionary call.                                                  *)
C8_RoundTripResolvesIdentically ==
    pc = "searched" =>
        \A i, j \in DOMAIN clients :
            (/\ i < j
             /\ clients[i].error = "none" /\ clients[i].source = "scrape"
             /\ clients[j].error = "none" /\ clients[j].source = "cache")
            => results[i] = results[j]

(* C9: a construction loads the client's file when the directory lists     *)
(* it; otherwise, whatever the directory holds, it scrapes once and, the   *)
(* scraped dictionary being non-empty, writes it to the client's file and  *)
(* holds it.                                                               *)
C9_LoadOrScrapeAndPersist ==
    [][Len(clients') = Len(clients) + 1 =>
         LET c == clients'[Len(clients')]
             client == ClientOf(DeviceUrl)
         IN IF cache[client].exists
            THEN /\ c.error = "none"
                 /\ c.page_objects = Loads(cache[client])
                 /\ scrapes' = scrapes
                 /\ cache' = cache
            ELSE /\ scrapes' = scrapes + 1
                 /\ Len(page) > 0 =>
                       /\ c.error = "none"
                       /\ c.page_objects = parseHTML(page)
                       /\ cache' = [cache EXCEPT ![client] = Dumps(parseHTML(page))]
    ]_vars

(* C10: a construction that succeeds leaves the client a non-empty         *)
(* dictionary, whether scraped or loaded, and a scrape that yields an      *)
(* empty dictionary fails the construction and writes no file.             *)
C10_ConstructedMapNonEmpty ==
    [][Len(clients') = Len(clients) + 1 =>
         LET c == clients'[Len(clients')]
         IN /\ c.error = "none" => Len(c.page_objects.objs) > 0
            /\ (scrapes' = scrapes + 1 /\ Len(page) = 0) =>
                  (c.error = "IOError" /\ cache' = cache)
    ]_vars

====
